---- MODULE Spec2Model ----
(***************************************************************************)
(* A model of timecard.py: the TimeCardManager class and main().           *)
(*                                                                         *)
(* Time.  A datetime is an integer count of clock ticks since Monday       *)
(* 2014-12-29 00:00:00 UTC (a Monday, so that weekday() is a remainder).   *)
(* The source clock has microsecond resolution; the model clock has        *)
(* TicksPerSec ticks per second.  A timedelta is a count of ticks too, so  *)
(* total_seconds() of a timedelta d is d / TicksPerSec and every total     *)
(* below is held in ticks: Seconds(n) is the total "n seconds".            *)
(*                                                                         *)
(* Strings.  A CSV cell (and a command line value) is a record             *)
(*   [kind |-> "ts",   n |-> s]  the text strftime gives for second s      *)
(*   [kind |-> "int",  n |-> m]  a text int() parses to m                  *)
(*   [kind |-> "txt",  n |-> k]  any other text                            *)
(*   [kind |-> "none", n |-> 0]  Python's None (no value on command line)  *)
(* A row of the data file is a tuple of an op code and cells.              *)
(***************************************************************************)
EXTENDS Integers, Sequences, FiniteSets, TLC

VARIABLES
    file_exists,     \* does ~/.timecard/data.csv exist
    file_rows,       \* the rows of the data file on disk
    clock,           \* the wall clock (datetime.utcnow()), in ticks
    op_rows,         \* self.op_rows of the manager of the last invocation
    last_in_out_op,  \* self.last_in_out_op
    now,             \* self.now
    cmd_op,          \* the op argument of the last invocation ("" : none)
    cmd_value,       \* the value argument of the last invocation
    result,          \* how the last invocation ended: "ok" or the exception
    printed          \* what print_status printed in the last invocation

vars == <<file_exists, file_rows, clock, op_rows, last_in_out_op, now,
          cmd_op, cmd_value, result, printed>>

----------------------------------------------------------------------------
(* Bounds of the model *)

TicksPerSec == 2
MaxRows == 3
MaxLogRows == 5
MaxMinutes == 1
MaxRun == 1
GridDays == 8
MaxSeqLen == 4

----------------------------------------------------------------------------
(* Calendar arithmetic of datetime / timedelta *)

Seconds(n) == n * TicksPerSec
Minute == Seconds(60)
Hour == 60 * Minute
Day == 24 * Hour
Week == 7 * Day

None == -1

\* datetime(2015, 1, 1): Thursday of the week that starts at tick 0
ARBITRARY_DT == 3 * Day

\* dt.hour
hour(dt) == (dt % Day) \div Hour

\* dt.weekday(), Monday = 0
weekday(dt) == (dt \div Day) % 7

\* dt.replace(hour=8, minute=0, second=0, microsecond=0)
replace_8am(dt) == dt - (dt % Day) + 8 * Hour

\* timedelta(minutes=m)
timedelta_minutes(m) == m * Minute

----------------------------------------------------------------------------
(* Strings *)

Ts(s) == [kind |-> "ts", n |-> s]
IntStr(m) == [kind |-> "int", n |-> m]
Txt(k) == [kind |-> "txt", n |-> k]
NoneVal == [kind |-> "none", n |-> 0]

\* datetime.strftime(DATETIME_FORMAT): second precision, the ticks are lost
strftime(dt) == Ts(dt \div TicksPerSec)

\* datetime.strptime(cell, DATETIME_FORMAT), defined when cell.kind = "ts"
strptime(cell) == Seconds(cell.n)

\* op.upper()
upper(op) ==
    CASE op = "in" -> "IN"
      [] op = "out" -> "OUT"
      [] op = "Out" -> "OUT"
      [] op = "add" -> "ADD"
      [] op = "sub" -> "SUB"
      [] op = "st" -> "ST"
      [] op = "rm" -> "RM"
      [] OTHER -> op

----------------------------------------------------------------------------
(* Class constants *)

OP_IN == "IN"
OP_OUT == "OUT"
OP_ADD == "ADD"
OP_SUB == "SUB"
OP_STATUS == "ST"
IN_OUT_OPS == {OP_IN, OP_OUT}
ADD_SUB_OPS == {OP_ADD, OP_SUB}
VALID_OPS == {OP_IN, OP_OUT, OP_ADD, OP_SUB, OP_STATUS}

\* self.last_in_out_op = None
NoOp == ""

----------------------------------------------------------------------------
(* validate_op: the exception it raises ("" : none) and the value it leaves *)
(* in self.last_in_out_op                                                   *)

\* a variant of the scan below that walks self.op_rows forwards (no
\* reversed()) and so stops on the first IN/OUT row
RECURSIVE scan_forward(_, _)
scan_forward(rows, i) ==
    IF i = 0 THEN [err |-> "", op |-> OP_OUT]
    ELSE LET k == Len(rows) - i + 1 IN
         IF Len(rows[k]) # 2 THEN [err |-> "ValueError:unpack", op |-> NoOp]
         ELSE IF rows[k][1] \in IN_OUT_OPS THEN [err |-> "", op |-> rows[k][1]]
         ELSE scan_forward(rows, i - 1)

\* a variant of the scan below that looks at the last row alone (a break
\* outside the if of line 61)
scan_last_only(rows, i) ==
    IF i = 0 THEN [err |-> "", op |-> OP_OUT]
    ELSE IF Len(rows[i]) # 2 THEN [err |-> "ValueError:unpack", op |-> NoOp]
    ELSE IF rows[i][1] \in IN_OUT_OPS THEN [err |-> "", op |-> rows[i][1]]
    ELSE [err |-> "", op |-> OP_OUT]

\* the loop over reversed(self.op_rows): tuple unpacking fails on a row
\* that has not two columns
RECURSIVE scan_last_in_out(_, _)
scan_last_in_out(rows, i) ==
    IF i = 0 THEN [err |-> "", op |-> OP_OUT]
    ELSE IF Len(rows[i]) # 2 THEN [err |-> "ValueError:unpack", op |-> NoOp]
    ELSE IF rows[i][1] \in IN_OUT_OPS THEN [err |-> "", op |-> rows[i][1]]
    ELSE scan_last_in_out(rows, i - 1)

\* a variant of validate_op without the check of lines 70-72
validate_op_no_same(op, rows, prev_op) ==
    IF op \notin VALID_OPS
    THEN [err |-> "ValueError:invalid op", last_in_out_op |-> prev_op]
    ELSE LET scan == scan_last_in_out(rows, Len(rows)) IN
         IF scan.err # ""
         THEN [err |-> scan.err, last_in_out_op |-> prev_op]
         ELSE IF scan.op = NoOp
         THEN [err |-> "ValueError:no in/out", last_in_out_op |-> scan.op]
         ELSE IF scan.op = OP_IN /\ op \in ADD_SUB_OPS
         THEN [err |-> "ValueError:checked in", last_in_out_op |-> scan.op]
         ELSE [err |-> "", last_in_out_op |-> scan.op]

\* a variant of validate_op without the check of lines 74-75
validate_op_no_adjust_check(op, rows, prev_op) ==
    IF op \notin VALID_OPS
    THEN [err |-> "ValueError:invalid op", last_in_out_op |-> prev_op]
    ELSE LET scan == scan_last_in_out(rows, Len(rows)) IN
         IF scan.err # ""
         THEN [err |-> scan.err, last_in_out_op |-> prev_op]
         ELSE IF scan.op = NoOp
         THEN [err |-> "ValueError:no in/out", last_in_out_op |-> scan.op]
         ELSE IF scan.op = op
         THEN [err |-> "ValueError:already", last_in_out_op |-> scan.op]
         ELSE [err |-> "", last_in_out_op |-> scan.op]

\* a variant of validate_op whose check of lines 74-75 tests
\* "op not in IN_OUT_OPS" and so refuses ST as well while checked in
validate_op_status_blocked(op, rows, prev_op) ==
    IF op \notin VALID_OPS
    THEN [err |-> "ValueError:invalid op", last_in_out_op |-> prev_op]
    ELSE LET scan == scan_last_in_out(rows, Len(rows)) IN
         IF scan.err # ""
         THEN [err |-> scan.err, last_in_out_op |-> prev_op]
         ELSE IF scan.op = NoOp
         THEN [err |-> "ValueError:no in/out", last_in_out_op |-> scan.op]
         ELSE IF scan.op = op
         THEN [err |-> "ValueError:already", last_in_out_op |-> scan.op]
         ELSE IF scan.op = OP_IN /\ op \notin IN_OUT_OPS
         THEN [err |-> "ValueError:checked in", last_in_out_op |-> scan.op]
         ELSE [err |-> "", last_in_out_op |-> scan.op]

validate_op(op, rows, prev_op) ==
    IF op \notin VALID_OPS
    THEN [err |-> "ValueError:invalid op", last_in_out_op |-> prev_op]
    ELSE LET scan == scan_last_in_out(rows, Len(rows)) IN
         IF scan.err # ""
         THEN [err |-> scan.err, last_in_out_op |-> prev_op]
         ELSE IF scan.op = NoOp
         THEN [err |-> "ValueError:no in/out", last_in_out_op |-> scan.op]
         ELSE IF scan.op = op
         THEN [err |-> "ValueError:already", last_in_out_op |-> scan.op]
         ELSE IF scan.op = OP_IN /\ op \in ADD_SUB_OPS
         THEN [err |-> "ValueError:checked in", last_in_out_op |-> scan.op]
         ELSE [err |-> "", last_in_out_op |-> scan.op]

\* a variant of validate_value that tries int(value) for OP_SUB alone
validate_value_sub_only(op, value) ==
    IF op = OP_SUB /\ value.kind # "int"
    THEN "ValueError:value"
    ELSE ""

\* validate_value: int(value) raises TypeError on None and ValueError on
\* text that is no integer
validate_value(op, value) ==
    IF op \in ADD_SUB_OPS /\ value.kind # "int"
    THEN "ValueError:value"
    ELSE ""

\* a variant of save_op that opens the file with mode 'w'
save_op_truncate(rows, op, value) == <<<<op, value>>>>

\* save_op: the file is opened for append and one row is written
save_op(rows, op, value) == Append(rows, <<op, value>>)

----------------------------------------------------------------------------
(* count_time *)

\* a variant of the filter below that tests start_ts alone
outside_window_start_only(row_value, start_ts, end_ts) ==
    start_ts # None /\ row_value < start_ts

\* a variant of the filter below that tests end_ts alone
outside_window_end_only(row_value, start_ts, end_ts) ==
    end_ts # None /\ row_value > end_ts

\* line 142: a bound that is None is falsy, a datetime is always truthy
outside_window(row_value, start_ts, end_ts) ==
    \/ (start_ts # None /\ row_value < start_ts)
    \/ (end_ts # None /\ row_value > end_ts)

\* a variant of the test below with >= and <=
anchor_in_window_inclusive(last_in_dt, start_ts, end_ts) ==
    /\ (start_ts # None /\ last_in_dt >= start_ts)
    /\ (end_ts # None /\ last_in_dt <= end_ts)

\* lines 157-158
anchor_in_window(last_in_dt, start_ts, end_ts) ==
    /\ (start_ts # None /\ last_in_dt > start_ts)
    /\ (end_ts # None /\ last_in_dt < end_ts)

\* lines 131-133
count_init ==
    [running_total |-> 0, last_in_dt |-> ARBITRARY_DT, checked_in |-> FALSE,
     err |-> ""]

\* a variant of the loop body below whose OUT branch leaves checked_in set
\* (line 151 missing)
count_step_stays_in(st, row, start_ts, end_ts) ==
    IF st.err # "" THEN st
    ELSE IF Len(row) # 2 THEN [st EXCEPT !.err = "ValueError:unpack"]
    ELSE LET row_op == row[1]
             cell == row[2]
         IN
         IF row_op \in IN_OUT_OPS /\ cell.kind # "ts"
         THEN [st EXCEPT !.err = "ValueError:strptime"]
         ELSE IF row_op \in ADD_SUB_OPS /\ cell.kind # "int"
         THEN [st EXCEPT !.err = "ValueError:int"]
         ELSE LET row_value ==
                      IF row_op \in IN_OUT_OPS THEN strptime(cell)
                      ELSE IF row_op \in ADD_SUB_OPS
                           THEN timedelta_minutes(cell.n)
                           ELSE 0
              IN
              IF row_op \in IN_OUT_OPS
                     /\ outside_window(row_value, start_ts, end_ts)
              THEN st
              ELSE IF ~st.checked_in /\ row_op = OP_IN
              THEN [st EXCEPT !.checked_in = TRUE, !.last_in_dt = row_value]
              ELSE IF st.checked_in /\ row_op = OP_OUT
              THEN [st EXCEPT
                       !.running_total = @ + (row_value - st.last_in_dt)]
              ELSE IF /\ ~st.checked_in
                      /\ row_op \in ADD_SUB_OPS
                      /\ anchor_in_window(st.last_in_dt, start_ts, end_ts)
              THEN IF row_op = OP_ADD
                   THEN [st EXCEPT !.running_total = @ + row_value]
                   ELSE [st EXCEPT !.running_total = @ - row_value]
              ELSE st

\* a variant of the loop body below whose IN branch does not test
\* checked_in (line 145 without "not checked_in"): an IN row restarts an
\* open session
count_step_in_restarts(st, row, start_ts, end_ts) ==
    IF st.err # "" THEN st
    ELSE IF Len(row) # 2 THEN [st EXCEPT !.err = "ValueError:unpack"]
    ELSE LET row_op == row[1]
             cell == row[2]
         IN
         IF row_op \in IN_OUT_OPS /\ cell.kind # "ts"
         THEN [st EXCEPT !.err = "ValueError:strptime"]
         ELSE IF row_op \in ADD_SUB_OPS /\ cell.kind # "int"
         THEN [st EXCEPT !.err = "ValueError:int"]
         ELSE LET row_value ==
                      IF row_op \in IN_OUT_OPS THEN strptime(cell)
                      ELSE IF row_op \in ADD_SUB_OPS
                           THEN timedelta_minutes(cell.n)
                           ELSE 0
              IN
              IF row_op \in IN_OUT_OPS
                     /\ outside_window(row_value, start_ts, end_ts)
              THEN st
              ELSE IF row_op = OP_IN
              THEN [st EXCEPT !.checked_in = TRUE, !.last_in_dt = row_value]
              ELSE IF st.checked_in /\ row_op = OP_OUT
              THEN [st EXCEPT
                       !.running_total = @ + (row_value - st.last_in_dt),
                       !.checked_in = FALSE]
              ELSE IF /\ ~st.checked_in
                      /\ row_op \in ADD_SUB_OPS
                      /\ anchor_in_window(st.last_in_dt, start_ts, end_ts)
              THEN IF row_op = OP_ADD
                   THEN [st EXCEPT !.running_total = @ + row_value]
                   ELSE [st EXCEPT !.running_total = @ - row_value]
              ELSE st

\* the body of the loop, lines 135-162, on one row
count_step(st, row, start_ts, end_ts) ==
    IF st.err # "" THEN st
    ELSE IF Len(row) # 2 THEN [st EXCEPT !.err = "ValueError:unpack"]
    ELSE LET row_op == row[1]
             cell == row[2]
         IN
         IF row_op \in IN_OUT_OPS /\ cell.kind # "ts"
         THEN [st EXCEPT !.err = "ValueError:strptime"]
         ELSE IF row_op \in ADD_SUB_OPS /\ cell.kind # "int"
         THEN [st EXCEPT !.err = "ValueError:int"]
         ELSE LET row_value ==
                      IF row_op \in IN_OUT_OPS THEN strptime(cell)
                      ELSE IF row_op \in ADD_SUB_OPS
                           THEN timedelta_minutes(cell.n)
                           ELSE 0
              IN
              IF row_op \in IN_OUT_OPS
                     /\ outside_window(row_value, start_ts, end_ts)
              THEN st
              ELSE IF ~st.checked_in /\ row_op = OP_IN
              THEN [st EXCEPT !.checked_in = TRUE, !.last_in_dt = row_value]
              ELSE IF st.checked_in /\ row_op = OP_OUT
              THEN [st EXCEPT
                       !.running_total = @ + (row_value - st.last_in_dt),
                       !.checked_in = FALSE]
              ELSE IF /\ ~st.checked_in
                      /\ row_op \in ADD_SUB_OPS
                      /\ anchor_in_window(st.last_in_dt, start_ts, end_ts)
              THEN IF row_op = OP_ADD
                   THEN [st EXCEPT !.running_total = @ + row_value]
                   ELSE [st EXCEPT !.running_total = @ - row_value]
              ELSE st

\* the loop, lines 135-162, from state st over rows
RECURSIVE count_loop(_, _, _, _)
count_loop(st, rows, start_ts, end_ts) ==
    IF rows = <<>> THEN st
    ELSE count_loop(count_step(st, Head(rows), start_ts, end_ts),
                    Tail(rows), start_ts, end_ts)

\* a variant of count_end below that does not test end_ts
count_end_any_window(st, end_ts, now_dt) ==
    IF st.err # "" THEN st
    ELSE IF st.checked_in
    THEN [st EXCEPT !.running_total = @ + (now_dt - st.last_in_dt)]
    ELSE st

\* lines 164-167: the state after the loop, the open session added
count_end(st, end_ts, now_dt) ==
    IF st.err # "" THEN st
    ELSE IF st.checked_in /\ end_ts = None
    THEN [st EXCEPT !.running_total = @ + (now_dt - st.last_in_dt)]
    ELSE st

\* count_time(start_ts, end_ts) on self.op_rows = rows and self.now = now_dt:
\* [err, running_total]
count_time_st(rows, start_ts, end_ts, now_dt) ==
    count_end(count_loop(count_init, rows, start_ts, end_ts), end_ts, now_dt)

\* the value count_time returns (when it raises nothing)
count_time(rows, start_ts, end_ts, now_dt) ==
    count_time_st(rows, start_ts, end_ts, now_dt).running_total

\* the exception count_time raises ("" : none)
count_time_err(rows) == count_loop(count_init, rows, None, None).err

----------------------------------------------------------------------------
(* The report windows *)

\* a variant of day_start without lines 101-102
day_start_no_rollback(now_dt) == replace_8am(now_dt)

\* print_work_today, lines 100-102
day_start(now_dt) ==
    IF hour(now_dt) < 8 THEN replace_8am(now_dt) - Day
    ELSE replace_8am(now_dt)

\* print_work_this_week / print_work_last_week, lines 111-112 and 122-123
monday(now_dt) == replace_8am(now_dt - weekday(now_dt) * Day)

\* line 113
last_week_monday(now_dt) == monday(now_dt) - 7 * Day

NoPrint == [status |-> NoOp, today |-> 0, this_week |-> 0, last_week |-> 0]

\* print_status: what is printed, given that count_time raises nothing
print_status(rows, status, now_dt) ==
    [status |-> status,
     today |-> count_time(rows, day_start(now_dt), None, now_dt),
     this_week |-> count_time(rows, monday(now_dt), None, now_dt),
     last_week |-> count_time(rows, last_week_monday(now_dt),
                              monday(now_dt), now_dt)]

----------------------------------------------------------------------------
(* Inputs *)

\* the instants the clock is observed at, in the weeks that follow
\* 2015-01-01: Monday 08:00:00 and the last tick before it, a Tuesday
\* before 08:00, and the next Monday 08:00:00
Mon1_0800 == (7 * 24 + 8) * 3600
Tue1_0700 == (8 * 24 + 7) * 3600
Mon2_0800 == (14 * 24 + 8) * 3600

ClockPoints ==
    {Seconds(Mon1_0800) - 1, Seconds(Mon1_0800), Seconds(Tue1_0700),
     Seconds(Mon2_0800)}

\* the bounds the reports pass to count_time at these instants, and None
WindowBounds ==
    {None} \cup { day_start(n) : n \in ClockPoints }
           \cup { monday(n) : n \in ClockPoints }
           \cup { last_week_monday(n) : n \in ClockPoints }

OpArgs == {"in", "out", "Out", "add", "sub", "st", "rm"}

Values == {NoneVal, Txt(0)} \cup { IntStr(m) : m \in {-1, MaxMinutes} }

\* main(): the command lines.  The value is read by add and sub alone.
Commands ==
    (OpArgs \X {NoneVal}) \cup ({"add", "sub"} \X Values)
        \cup {<<"in", Txt(0)>>}

----------------------------------------------------------------------------
(* The state machine *)

Init ==
    /\ file_exists \in BOOLEAN
    /\ file_rows = <<>>
    /\ clock \in { c \in ClockPoints : \A d \in ClockPoints : c <= d }
    /\ op_rows = <<>>
    /\ last_in_out_op = NoOp
    /\ now = None
    /\ cmd_op = ""
    /\ cmd_value = NoneVal
    /\ result = ""
    /\ printed = NoPrint

\* One invocation of main(): the manager is constructed at the current
\* clock and handle_op runs to its end or to the exception it raises.  t is
\* the clock when handle_op takes the timestamp of an IN or OUT row (line
\* 40); an invocation that takes none leaves the clock to Tick.
HandleOp(op_arg, value, t) ==
    /\ t >= clock /\ t - clock <= MaxRun
    /\ cmd_op' = op_arg
    /\ cmd_value' = value
    /\ now' = clock
    /\ file_exists' = file_exists
    /\ IF ~file_exists
       THEN \* read_data_file: open() raises
            /\ t = clock
            /\ result' = "IOError"
            /\ op_rows' = <<>>
            /\ last_in_out_op' = NoOp
            /\ printed' = NoPrint
            /\ file_rows' = file_rows
            /\ clock' = clock
       ELSE LET rows == file_rows
                op == upper(op_arg)
                v == validate_op(op, rows, NoOp)
                verr == IF v.err # "" THEN v.err ELSE validate_value(op, value)
                saved_value == IF op \in IN_OUT_OPS THEN strftime(t) ELSE value
                rows2 == IF op \in IN_OUT_OPS \cup ADD_SUB_OPS
                         THEN save_op(rows, op, saved_value)
                         ELSE rows
                status == IF op \in IN_OUT_OPS THEN op ELSE v.last_in_out_op
            IN
            IF verr # ""
            THEN /\ t = clock
                 /\ result' = verr
                 /\ op_rows' = rows
                 /\ last_in_out_op' = v.last_in_out_op
                 /\ printed' = NoPrint
                 /\ file_rows' = file_rows
                 /\ clock' = clock
            ELSE /\ (op \notin IN_OUT_OPS => t = clock)
                 /\ clock' = t
                 /\ file_rows' = rows2
                 /\ op_rows' = rows2
                 /\ last_in_out_op' = status
                 /\ IF count_time_err(rows2) # ""
                    THEN /\ result' = count_time_err(rows2)
                         /\ printed' = NoPrint
                    ELSE /\ result' = "ok"
                         /\ printed' = print_status(rows2, status, clock)

\* Time passes between two invocations; no manager is alive.
Tick ==
    /\ \E t \in ClockPoints : t > clock /\ clock' = t
    /\ op_rows' = <<>>
    /\ last_in_out_op' = NoOp
    /\ now' = None
    /\ cmd_op' = ""
    /\ cmd_value' = NoneVal
    /\ result' = ""
    /\ printed' = NoPrint
    /\ UNCHANGED <<file_exists, file_rows>>

\* The user creates the empty data file.
Touch ==
    /\ ~file_exists
    /\ file_exists' = TRUE
    /\ file_rows' = <<>>
    /\ op_rows' = <<>>
    /\ last_in_out_op' = NoOp
    /\ now' = None
    /\ cmd_op' = ""
    /\ cmd_value' = NoneVal
    /\ result' = ""
    /\ printed' = NoPrint
    /\ UNCHANGED clock

Invoke == \E cmd \in Commands, t \in ClockPoints :
              HandleOp(cmd[1], cmd[2], t) /\ Len(file_rows') <= MaxRows

Next == Invoke \/ Tick \/ Touch

Spec == Init /\ [][Next]_vars

----------------------------------------------------------------------------
(* The same machine on an existing file, driven by the commands that are   *)
(* accepted in some state, to a longer log                                 *)

LogCommands ==
    {<<"in", NoneVal>>, <<"out", NoneVal>>, <<"st", NoneVal>>,
     <<"add", IntStr(MaxMinutes)>>, <<"sub", IntStr(MaxMinutes)>>}

InitLog == Init /\ file_exists

InvokeLog == \E cmd \in LogCommands, t \in ClockPoints :
                 HandleOp(cmd[1], cmd[2], t) /\ Len(file_rows') <= MaxLogRows

NextLog == InvokeLog \/ Tick

SpecLog == InitLog /\ [][NextLog]_vars

----------------------------------------------------------------------------
(* The same machine started at any hour of GridDays days, on the hour and  *)
(* one tick before it, to run the reports at every time of day and week    *)

\* Monday 2015-01-05 00:00:00
GridStart == 7 * 24 * 3600

ClockGrid ==
    { Seconds(GridStart + h * 3600) - o : h \in 0..(GridDays * 24), o \in {0, 1} }

ClockCommands == {<<"in", NoneVal>>, <<"out", NoneVal>>, <<"st", NoneVal>>}

InitClock ==
    /\ file_exists = TRUE
    /\ file_rows = <<>>
    /\ clock \in ClockGrid
    /\ op_rows = <<>>
    /\ last_in_out_op = NoOp
    /\ now = None
    /\ cmd_op = ""
    /\ cmd_value = NoneVal
    /\ result = ""
    /\ printed = NoPrint

InvokeClock == \E cmd \in ClockCommands, t \in ClockGrid :
                   HandleOp(cmd[1], cmd[2], t) /\ Len(file_rows') <= MaxRows

NextClock == InvokeClock

SpecClock == InitClock /\ [][NextClock]_vars

----------------------------------------------------------------------------
(* The same machine on a data file that holds any sequence of records,     *)
(* in any order (a file edited by hand or merged from two machines)        *)

\* the records: IN and OUT rows on either side of Monday 08:00:00, and
\* adjustments
SeqRows ==
    { <<op, Ts(s)>> : op \in IN_OUT_OPS, s \in {Mon1_0800 - 1, Mon1_0800} }
        \cup { <<op, IntStr(MaxMinutes)>> : op \in ADD_SUB_OPS }

RECURSIVE SeqsUpTo(_)
SeqsUpTo(n) ==
    IF n = 0 THEN { <<>> }
    ELSE LET shorter == SeqsUpTo(n - 1) IN
         shorter \cup { Append(rows, row) : rows \in shorter, row \in SeqRows }

InitSeq ==
    /\ file_exists = TRUE
    /\ file_rows \in SeqsUpTo(MaxSeqLen)
    /\ clock = Seconds(Tue1_0700)
    /\ op_rows = <<>>
    /\ last_in_out_op = NoOp
    /\ now = None
    /\ cmd_op = ""
    /\ cmd_value = NoneVal
    /\ result = ""
    /\ printed = NoPrint

InvokeSeq == \E cmd \in LogCommands, t \in ClockPoints :
                 HandleOp(cmd[1], cmd[2], t) /\ Len(file_rows') <= MaxSeqLen

NextSeq == InvokeSeq

SpecSeq == InitSeq /\ [][NextSeq]_vars

----------------------------------------------------------------------------
(* The same machine on a data file that holds a malformed row (the file    *)
(* was edited by hand): every row of such a file is what csv.reader gives  *)

\* the second the first invocation runs in
FirstSec == (Seconds(Mon1_0800) - 1) \div TicksPerSec

\* rows that are no record of the program: a timestamp strptime rejects,
\* minutes int() rejects, an unknown op code, one column, three columns
MalformedRows ==
    { <<OP_IN, Txt(0)>>, <<OP_ADD, Txt(0)>>, <<"XX", Txt(0)>>,
      <<OP_IN>>, <<OP_OUT, Ts(FirstSec), Txt(0)>> }

\* logs the program wrote before the file was edited
WrittenLogs ==
    { <<>>, << <<OP_IN, Ts(FirstSec)>> >>,
      << <<OP_IN, Ts(FirstSec)>>, <<OP_OUT, Ts(FirstSec)>> >> }

InsertAt(rows, k, row) ==
    SubSeq(rows, 1, k) \o <<row>> \o SubSeq(rows, k + 1, Len(rows))

MalformedLogs ==
    UNION { { InsertAt(rows, k, bad) :
                k \in 0..Len(rows), bad \in MalformedRows } :
            rows \in WrittenLogs }

InitBad ==
    /\ file_exists = TRUE
    /\ file_rows \in { l \in MalformedLogs : Len(l) <= MaxRows }
    /\ clock \in { c \in ClockPoints : \A d \in ClockPoints : c <= d }
    /\ op_rows = <<>>
    /\ last_in_out_op = NoOp
    /\ now = None
    /\ cmd_op = ""
    /\ cmd_value = NoneVal
    /\ result = ""
    /\ printed = NoPrint

InvokeBad == \E cmd \in Commands, t \in ClockPoints :
                 HandleOp(cmd[1], cmd[2], t) /\ Len(file_rows') <= MaxRows + 1

NextBad == InvokeBad \/ Tick

SpecBad == InitBad /\ [][NextBad]_vars

----------------------------------------------------------------------------
(* Vocabulary of the properties *)

IsInOutRow(row) == row[1] \in IN_OUT_OPS

IsAdjustRow(row) == row[1] \in ADD_SUB_OPS

\* the IN/OUT rows of a log, in order
InOutRows(rows) == SelectSeq(rows, IsInOutRow)

\* the op of the last IN/OUT row of a log, "none" when it has none
LastInOut(rows) ==
    IF InOutRows(rows) = <<>> THEN "none"
    ELSE InOutRows(rows)[Len(InOutRows(rows))][1]

IsPrefix(s, t) == Len(s) <= Len(t) /\ SubSeq(t, 1, Len(s)) = s

\* the step is an invocation of main() with one of the commands cmds
Invoked(cmds) == cmd_op' \in cmds

Rejected == result' \notin {"", "ok"}

IN_CMDS == {"in"}
OUT_CMDS == {"out", "Out"}
ADJUST_CMDS == {"add", "sub"}

----------------------------------------------------------------------------
(* C1: a check command equal to the current status is rejected and writes  *)
(* nothing: "in" when the last IN/OUT row is IN, "out" when it is OUT or   *)
(* there is none, raise an error and leave the file rows and op_rows as    *)
(* they were, the length unchanged.                                        *)
C1_SameStatusRejected ==
    [][ (\/ Invoked(IN_CMDS) /\ LastInOut(file_rows) = OP_IN
         \/ Invoked(OUT_CMDS) /\ LastInOut(file_rows) \in {OP_OUT, "none"})
        => /\ Rejected
           /\ file_rows' = file_rows
           /\ op_rows' = file_rows
           /\ Len(file_rows') = Len(file_rows) ]_vars

\* a check-in was rejected while a session was open
C1_Witness ==
    /\ cmd_op = "in"
    /\ result = "ValueError:already"
    /\ LastInOut(file_rows) = OP_IN
    /\ op_rows = file_rows

(* C2: add and sub are rejected whenever the last IN/OUT row is IN, for    *)
(* every value, and no row is appended.                                    *)
C2_AdjustRejectedWhileIn ==
    [][ (Invoked(ADJUST_CMDS) /\ LastInOut(file_rows) = OP_IN)
        => Rejected /\ file_rows' = file_rows ]_vars

\* an add with a well-formed value was rejected while a session was open
C2_Witness ==
    /\ cmd_op = "add"
    /\ cmd_value.kind = "int"
    /\ result = "ValueError:checked in"
    /\ LastInOut(file_rows) = OP_IN

\* IN and OUT rows alternate, starting with IN
Alternates(rows) ==
    \A i \in 1..Len(InOutRows(rows)) :
        InOutRows(rows)[i][1] = (IF i % 2 = 1 THEN OP_IN ELSE OP_OUT)

\* every ADD/SUB row comes while checked out
AdjustOnlyWhileOut(rows) ==
    \A i \in 1..Len(rows) :
        IsAdjustRow(rows[i]) => LastInOut(SubSeq(rows, 1, i - 1)) # OP_IN

WellFormed(rows) == Alternates(rows) /\ AdjustOnlyWhileOut(rows)

(* C3: every log reachable from the empty log by commands is well formed:  *)
(* the IN and OUT rows alternate starting with IN, and the most recent     *)
(* IN/OUT row before an ADD/SUB row is OUT, or there is none.              *)
C3_LogWellFormed == WellFormed(file_rows)

\* a session, an adjustment after it, and a rejected command
C3_Witness ==
    /\ Len(file_rows) = 3
    /\ file_rows[1][1] = OP_IN
    /\ file_rows[2][1] = OP_OUT
    /\ file_rows[3][1] = OP_SUB
    /\ result = "ValueError:already"

(* C4: a command never changes the rows there are and appends at most one: *)
(* a successful in or out appends the op with the clock's second, a        *)
(* successful add or sub appends the op with the given value, a rejected   *)
(* command and st append nothing.                                          *)
C4_AppendOnly ==
    [][ Invoked(OpArgs)
        => /\ IsPrefix(file_rows, file_rows')
           /\ Len(file_rows') <= Len(file_rows) + 1
           /\ (result' = "ok" /\ Invoked(IN_CMDS \cup OUT_CMDS)
                 => /\ Len(file_rows') = Len(file_rows) + 1
                    /\ LET row == file_rows'[Len(file_rows')] IN
                       /\ row[1] = (IF Invoked(IN_CMDS) THEN OP_IN ELSE OP_OUT)
                       /\ row[2].kind = "ts"
                       /\ Seconds(row[2].n) <= clock'
                       /\ clock' < Seconds(row[2].n + 1))
           /\ (result' = "ok" /\ Invoked(ADJUST_CMDS)
                 => /\ Len(file_rows') = Len(file_rows) + 1
                    /\ LET row == file_rows'[Len(file_rows')] IN
                       /\ row[1] = (IF cmd_op' = "add" THEN OP_ADD ELSE OP_SUB)
                       /\ row[2] = cmd_value')
           /\ (Rejected \/ Invoked({"st"}) => file_rows' = file_rows) ]_vars

\* an add was accepted after a session
C4_Witness ==
    /\ cmd_op = "add"
    /\ result = "ok"
    /\ Len(file_rows) = 3
    /\ file_rows[3] = <<OP_ADD, cmd_value>>

----------------------------------------------------------------------------
(* Vocabulary of the count_time properties *)

\* the instant an IN/OUT row holds, in ticks
TsOf(row) == row[2].n * TicksPerSec

NonDecreasing(rows) ==
    \A i, j \in 1..Len(InOutRows(rows)) :
        i <= j => TsOf(InOutRows(rows)[i]) <= TsOf(InOutRows(rows)[j])

\* the windows [s, e], each bound optional
Windows ==
    { w \in WindowBounds \X WindowBounds :
        w[1] = None \/ w[2] = None \/ w[1] <= w[2] }

\* t lies inside the window [s, e]
Inside(t, s, e) == (s = None \/ s <= t) /\ (e = None \/ t <= e)

\* the sum of out - in over the closed sessions of alternating IN/OUT rows
RECURSIVE ClosedSum(_)
ClosedSum(io) ==
    IF Len(io) < 2 THEN 0
    ELSE (TsOf(io[2]) - TsOf(io[1])) + ClosedSum(SubSeq(io, 3, Len(io)))

\* what row i of rows adds to running_total in count_time(s, e)
Contribution(rows, i, s, e) ==
    count_loop(count_init, SubSeq(rows, 1, i), s, e).running_total
        - count_loop(count_init, SubSeq(rows, 1, i - 1), s, e).running_total

\* the index of the last IN row before row i, 0 when there is none
LastInBefore(rows, i) ==
    IF \E j \in 1..(i - 1) : rows[j][1] = OP_IN
    THEN CHOOSE j \in 1..(i - 1) :
             /\ rows[j][1] = OP_IN
             /\ \A k \in (j + 1)..(i - 1) : rows[k][1] # OP_IN
    ELSE 0

\* 20150101T08:00:00 and 20150101T12:30:00, in seconds
Jan1_0800 == (3 * 24 + 8) * 3600
Jan1_1230 == (3 * 24 + 12) * 3600 + 1800
Jan1_0900 == (3 * 24 + 9) * 3600
Jan1_1000 == (3 * 24 + 10) * 3600

(* C5: on a log of IN/OUT rows alone, alternating from IN with             *)
(* non-decreasing timestamps, count_time() without bounds returns the sum  *)
(* of out - in over the closed sessions, plus now - last_in when the last  *)
(* row is IN; 08:00:00 to 12:30:00 gives 16200 seconds.                    *)
C5_UnboundedTotal ==
    /\ (/\ \A i \in 1..Len(file_rows) : IsInOutRow(file_rows[i])
        /\ Alternates(file_rows)
        /\ NonDecreasing(file_rows))
       => \A n \in {now, clock} :
              count_time(file_rows, None, None, n)
                = ClosedSum(file_rows)
                    + (IF LastInOut(file_rows) = OP_IN
                       THEN n - TsOf(file_rows[Len(file_rows)])
                       ELSE 0)
    /\ count_time(<< <<OP_IN, Ts(Jan1_0800)>>, <<OP_OUT, Ts(Jan1_1230)>> >>,
                  None, None, clock) = 16200 * TicksPerSec

\* two closed sessions of different lengths and nothing else
C5_Witness ==
    /\ Len(file_rows) = 4
    /\ \A i \in 1..4 : IsInOutRow(file_rows[i])
    /\ TsOf(file_rows[1]) < TsOf(file_rows[2])
    /\ TsOf(file_rows[2]) < TsOf(file_rows[3])
    /\ TsOf(file_rows[3]) < TsOf(file_rows[4])

\* the log ends in an open session: its last row is IN
EndsOpen(rows) == rows # <<>> /\ rows[Len(rows)][1] = OP_IN

Front(rows) == SubSeq(rows, 1, Len(rows) - 1)

(* C6: when the log ends in an open session IN(t1) that passes the window  *)
(* filter and now > t1, count_time without end_ts adds exactly now - t1    *)
(* for it, and count_time with an end_ts adds nothing for it.              *)
C6_OpenSession ==
    EndsOpen(file_rows) =>
        LET t1 == TsOf(file_rows[Len(file_rows)]) IN
        \A n \in {now, clock}, w \in Windows :
            (n > t1 /\ Inside(t1, w[1], w[2])) =>
                count_time(file_rows, w[1], w[2], n)
                  = count_time(Front(file_rows), w[1], w[2], n)
                      + (IF w[2] = None THEN n - t1 ELSE 0)

\* an open session after a closed one, inside a last-week window and
\* before the clock
C6_Witness ==
    /\ Len(file_rows) = 3
    /\ EndsOpen(file_rows)
    /\ TsOf(file_rows[1]) < TsOf(file_rows[2])
    /\ TsOf(file_rows[3]) < clock
    /\ Inside(TsOf(file_rows[3]), last_week_monday(clock), monday(clock))

(* C7: the window filters check events and never clips: a closed session   *)
(* adds to count_time(start_ts, end_ts) its full duration when its IN and  *)
(* its OUT are inside [start_ts, end_ts] and 0 when its IN is before       *)
(* start_ts or its OUT after end_ts; IN 08:00, OUT 10:00 with start_ts     *)
(* 09:00 gives 0.                                                          *)
C7_FilterNotClip ==
    /\ \A w \in Windows :
       \A i \in 2..Len(file_rows) :
           file_rows[i][1] = OP_OUT =>
               LET j == LastInBefore(file_rows, i)
                   t_in == TsOf(file_rows[j])
                   t_out == TsOf(file_rows[i])
               IN
               IF Inside(t_in, w[1], w[2]) /\ Inside(t_out, w[1], w[2])
               THEN Contribution(file_rows, i, w[1], w[2]) = t_out - t_in
               ELSE Contribution(file_rows, i, w[1], w[2]) = 0
    /\ count_time(<< <<OP_IN, Ts(Jan1_0800)>>, <<OP_OUT, Ts(Jan1_1000)>> >>,
                  Jan1_0900 * TicksPerSec, None, clock) = 0

\* a status report on a log with a closed session that straddles the start
\* of this week's window, which is the end of last week's
C7_Witness ==
    \E i \in 2..Len(file_rows) :
        /\ file_rows[i][1] = OP_OUT
        /\ file_rows[i - 1][1] = OP_IN
        /\ TsOf(file_rows[i - 1]) < monday(clock)
        /\ monday(clock) < TsOf(file_rows[i])
        /\ cmd_op = "st"
        /\ result = "ok"

(* C8: for a log [IN t1, OUT t2, ADD m], count_time over every window      *)
(* whose supplied bounds strictly contain t1 and that holds the session    *)
(* returns (t2 - t1) + 60 m seconds; an omitted bound is no limit.         *)
C8_AdjustCounted ==
    (/\ Len(file_rows) = 3
     /\ file_rows[1][1] = OP_IN
     /\ file_rows[2][1] = OP_OUT
     /\ file_rows[3][1] = OP_ADD)
    => \A w \in Windows :
           (/\ w[1] = None \/ w[1] < TsOf(file_rows[1])
            /\ w[2] = None \/ TsOf(file_rows[1]) < w[2]
            /\ Inside(TsOf(file_rows[2]), w[1], w[2]))
           => count_time(file_rows, w[1], w[2], clock)
                = (TsOf(file_rows[2]) - TsOf(file_rows[1]))
                    + 60 * file_rows[3][2].n * TicksPerSec

(* C9: an ADD/SUB row changes count_time(start_ts, end_ts) only if the     *)
(* most recent IN row before it has its timestamp inside the window,       *)
(* whatever other sessions the log holds inside the window.                *)
C9_AdjustAnchored ==
    \A w \in Windows :
    \A i \in 2..Len(file_rows) :
        (/\ IsAdjustRow(file_rows[i])
         /\ LastInBefore(file_rows, i) # 0
         /\ Contribution(file_rows, i, w[1], w[2]) # 0)
        => Inside(TsOf(file_rows[LastInBefore(file_rows, i)]), w[1], w[2])

(* C10: on a data file that does not exist, st succeeds and reports        *)
(* checked out with the three totals 0, and in succeeds and creates the    *)
(* first row.                                                              *)
C10_MissingFileIsEmpty ==
    [][ ~file_exists =>
          /\ Invoked({"st"}) =>
                /\ result' = "ok"
                /\ printed' = [status |-> OP_OUT, today |-> 0,
                               this_week |-> 0, last_week |-> 0]
          /\ Invoked(IN_CMDS) =>
                /\ result' = "ok"
                /\ Len(file_rows') = 1
                /\ file_rows'[1][1] = OP_IN ]_vars

----------------------------------------------------------------------------
\* the row is a record the program writes: two columns, an IN/OUT op with
\* a timestamp or an ADD/SUB op with integer minutes
IsRecord(row) ==
    /\ Len(row) = 2
    /\ \/ row[1] \in IN_OUT_OPS /\ row[2].kind = "ts"
       \/ row[1] \in ADD_SUB_OPS /\ row[2].kind = "int"

HasMalformed(rows) == \E i \in 1..Len(rows) : ~IsRecord(rows[i])

(* C11: when a row of the log is malformed (a timestamp or minutes that do *)
(* not parse, a wrong number of columns, an unknown op code), every        *)
(* command (in, out, add, sub, st) fails and the log is left unchanged.    *)
C11_MalformedIsFatal ==
    [][ (HasMalformed(file_rows) /\ Invoked(OpArgs))
        => Rejected /\ file_rows' = file_rows ]_vars

(* C12: add and sub with a value that is no integer (no value at all        *)
(* included) fail and append nothing to the log, whatever the log holds.    *)
C12_BadValueRejected ==
    [][ (Invoked(ADJUST_CMDS) /\ cmd_value'.kind # "int")
        => Rejected /\ file_rows' = file_rows ]_vars

\* add with text for a value was refused by validate_value on a log whose
\* status allows an adjustment
C12_Witness ==
    /\ cmd_op = "add" /\ cmd_value = Txt(0)
    /\ result = "ValueError:value"
    /\ Len(file_rows) > 0 /\ LastInOut(file_rows) = OP_OUT

(* C13: on every log that commands build from the empty log, checked in or  *)
(* checked out, with or without adjustments, st raises nothing and leaves   *)
(* the log unchanged.                                                       *)
C13_StatusAlwaysLegal ==
    [][ Invoked({"st"}) => result' = "ok" /\ file_rows' = file_rows ]_vars

\* st has succeeded while checked in, on a log that holds an adjustment
C13_Witness ==
    /\ cmd_op = "st" /\ result = "ok"
    /\ LastInOut(file_rows) = OP_IN
    /\ \E i \in 1..Len(file_rows) : IsAdjustRow(file_rows[i])

\* is dt a Monday at 08:00:00.000000
IsMonday8am(dt) == weekday(dt) = 0 /\ dt % Day = 8 * Hour

(* C14: at every current time the this-week window starts at a Monday       *)
(* 08:00 m with m <= now < m + 7 days, and the last-week window is          *)
(* [m - 7 days, m].                                                         *)
C14_WeekWindows ==
    (cmd_op = "st" /\ result = "ok")
    => LET m == monday(now) IN
       /\ IsMonday8am(m)
       /\ m <= now /\ now < m + Week
       /\ last_week_monday(now) = m - Week

(* C15: at every current time the today window starts at an instant d at    *)
(* 08:00:00 with d <= now < d + 24 hours, on the previous calendar day when *)
(* the hour of now is before 8.                                             *)
C15_TodayWindow ==
    (cmd_op = "st" /\ result = "ok")
    => LET d == day_start(now) IN
       /\ d % Day = 8 * Hour
       /\ d <= now /\ now < d + Day
       /\ (hour(now) < 8 <=> d \div Day = (now \div Day) - 1)
       /\ (hour(now) >= 8 <=> d \div Day = now \div Day)
       /\ printed.today = count_time(file_rows, d, None, now)

\* the report has run before 08:00 on an open session
C15_Witness ==
    /\ cmd_op = "st" /\ result = "ok"
    /\ hour(now) < 8
    /\ printed.status = OP_IN
    /\ printed.today > 0

\* the state of count_time before row i of rows, for the window [s, e]
StateBefore(rows, i, s, e) ==
    count_loop(count_init, SubSeq(rows, 1, i - 1), s, e)

\* row is one the state machine of count_time has no transition for
Untimely(st, row) ==
    \/ row[1] = OP_IN /\ st.checked_in
    \/ row[1] = OP_OUT /\ ~st.checked_in
    \/ IsAdjustRow(row) /\ st.checked_in

(* C16: on every sequence of IN/OUT/ADD/SUB rows, in any order, count_time  *)
(* leaves checked_in, last_in_dt and running_total unchanged on an IN row   *)
(* met while checked in, an OUT row met while checked out and an ADD/SUB    *)
(* row met while checked in, and it runs to the end: the status report      *)
(* raises nothing.                                                          *)
C16_IllFormedIgnored ==
    /\ \A w \in Windows : \A i \in 1..Len(file_rows) :
          LET st == StateBefore(file_rows, i, w[1], w[2]) IN
          Untimely(st, file_rows[i])
              => count_step(st, file_rows[i], w[1], w[2]) = st
    /\ count_time_err(file_rows) = ""
    /\ (cmd_op = "st" => result = "ok")

\* the report has run on a log with an IN row met while checked in, an OUT
\* row met while checked out and an adjustment met while checked in
C16_Witness ==
    /\ cmd_op = "st" /\ result = "ok"
    /\ \E i, j, k \in 1..Len(file_rows) :
          /\ file_rows[i][1] = OP_IN
          /\ StateBefore(file_rows, i, None, None).checked_in
          /\ file_rows[j][1] = OP_OUT
          /\ ~StateBefore(file_rows, j, None, None).checked_in
          /\ IsAdjustRow(file_rows[k])
          /\ StateBefore(file_rows, k, None, None).checked_in

(* C17: in every window an IN or OUT row whose timestamp equals start_ts or *)
(* end_ts is kept by the filter (it is processed as with no bounds), and an *)
(* ADD or SUB row whose anchor last_in_dt equals start_ts or end_ts is not  *)
(* applied.                                                                 *)
C17_BoundsInclusiveExclusive ==
    \A w \in Windows : \A i \in 1..Len(file_rows) :
        LET st == StateBefore(file_rows, i, w[1], w[2])
            row == file_rows[i]
        IN
        /\ (IsInOutRow(row) /\ TsOf(row) \in {w[1], w[2]})
               => /\ ~outside_window(TsOf(row), w[1], w[2])
                  /\ count_step(st, row, w[1], w[2])
                         = count_step(st, row, None, None)
        /\ (IsAdjustRow(row) /\ st.last_in_dt \in {w[1], w[2]})
               => count_step(st, row, w[1], w[2]) = st

\* the last-week report has counted a session that checked in exactly at
\* the start of the window, and the log holds an adjustment made after it
C17_Witness ==
    /\ result = "ok"
    /\ Len(file_rows) >= 3
    /\ file_rows[1][1] = OP_IN
    /\ TsOf(file_rows[1]) = last_week_monday(now)
    /\ file_rows[2][1] = OP_OUT
    /\ IsAdjustRow(file_rows[3])
    /\ printed.last_week = TsOf(file_rows[2]) - TsOf(file_rows[1])
    /\ printed.last_week > 0

\* the checked_in flag count_time() ends its loop with, no window given
ReplayCheckedIn(rows) == count_loop(count_init, rows, None, None).checked_in

(* C18: on every sequence of IN/OUT/ADD/SUB rows the status the validator   *)
(* finds by scanning the log backwards for the last IN/OUT row (checked out *)
(* when there is none) is the checked_in flag the forward replay of         *)
(* count_time() ends with, and the status printed after a successful in or  *)
(* out is the op just appended.                                             *)
C18_ValidatorAgreesWithReplay ==
    /\ scan_last_in_out(file_rows, Len(file_rows)).op = OP_IN
           <=> ReplayCheckedIn(file_rows)
    /\ last_in_out_op # NoOp
           => (last_in_out_op = OP_IN <=> ReplayCheckedIn(op_rows))
    /\ (result = "ok" /\ cmd_op \in IN_CMDS \cup OUT_CMDS)
           => /\ printed.status = file_rows[Len(file_rows)][1]
              /\ printed.status = upper(cmd_op)

\* in or out has succeeded on a log that does not alternate and ends with
\* an adjustment
C18_Witness ==
    /\ result = "ok" /\ cmd_op \in IN_CMDS \cup OUT_CMDS
    /\ Len(file_rows) >= 3
    /\ ~Alternates(Front(file_rows))
    /\ IsAdjustRow(file_rows[Len(file_rows) - 1])

\* a log of IN and OUT rows alone
OnlyInOut(rows) == \A i \in 1..Len(rows) : IsInOutRow(rows[i])

\* no row of the log is stamped later than n
NotLaterThan(rows, n) == \A i \in 1..Len(rows) : TsOf(rows[i]) <= n

(* C19: on every well-formed log of IN/OUT rows with non-decreasing         *)
(* timestamps not later than now, count_time(start_ts, end_ts) lies between *)
(* 0 and count_time() for every window, either bound optional, and the      *)
(* last-week and this-week totals together do not exceed count_time().      *)
C19_WindowingUndercounts ==
    \A n \in {now, clock} :
        (/\ n # None
         /\ OnlyInOut(file_rows) /\ Alternates(file_rows)
         /\ NonDecreasing(file_rows) /\ NotLaterThan(file_rows, n))
        => LET full == count_time(file_rows, None, None, n) IN
           /\ \A w \in Windows :
                  /\ 0 <= count_time(file_rows, w[1], w[2], n)
                  /\ count_time(file_rows, w[1], w[2], n) <= full
           /\ count_time(file_rows, last_week_monday(n), monday(n), n)
                  + count_time(file_rows, monday(n), None, n) <= full
           /\ (n = now /\ result = "ok")
                  => /\ printed.last_week + printed.this_week <= full
                     /\ printed.today <= full

\* the report has printed work in last week and in this week from a log of
\* IN and OUT rows
C19_Witness ==
    /\ result = "ok"
    /\ OnlyInOut(file_rows) /\ NotLaterThan(file_rows, now)
    /\ printed.last_week > 0
    /\ printed.this_week > 0

(* C20: the timestamp a successful in appends is not later than the         *)
(* self.now of the same invocation, so that the open session adds no        *)
(* negative time to the totals printed right after the check-in.            *)
C20_StampNotAfterNow ==
    (cmd_op \in IN_CMDS /\ result = "ok")
    => /\ TsOf(file_rows[Len(file_rows)]) <= now
       /\ printed.today >= 0
       /\ printed.this_week >= 0

====
